---- MODULE Spec2Model ----
(***************************************************************************)
(* Model of the price/tier scraper of DarkzAtom/vaheUpwork.                *)
(*                                                                         *)
(* The repository holds three iterations of the same program:              *)
(*   "main"    src/requests_main.py                                        *)
(*   "final"   src/test_file_finalsolution.py                              *)
(*   "initial" src/test_file_initial.py                                    *)
(* The variable `variant` selects which of the three is running.           *)
(*                                                                         *)
(* Text is a sequence of one-character strings, so that the regular        *)
(* expressions, strip(), split() and replace() of the code are computed    *)
(* character by character.  A fixed literal of the code ("No URL           *)
(* provided") is a one-symbol sequence.  Non-text values carry a tag as    *)
(* their first symbol: None, NaN, and a number <<"<int>", digits...>>.     *)
(***************************************************************************)
EXTENDS Integers, Sequences, FiniteSets, TLC

\* ------------------------------------------------------------------ bounds
MaxRows == 2      \* rows of the input table
MaxTiers == 2     \* div.tier-button elements of a page

\* ------------------------------------------------------------------ values
None == <<"<None>">>
NaN == <<"<NaN>">>
NoneInt == 0 - 1                       \* Python None where an int is expected

Digits == {"0", "1", "2", "3", "4", "5", "6", "7", "8", "9"}
Whitespace == {" "}
Tags == {"<None>", "<NaN>", "<int>"}

IsText(v) == v = <<>> \/ v[1] \notin Tags

\* bool(v) of a text-or-None value
Truthy(v) == v # None /\ v # NaN /\ v # <<>>

\* bool(n) of an int-or-None value
TruthyInt(n) == n # NoneInt /\ n # 0

DigitVal(c) ==
    CASE c = "0" -> 0 [] c = "1" -> 1 [] c = "2" -> 2 [] c = "3" -> 3
      [] c = "4" -> 4 [] c = "5" -> 5 [] c = "6" -> 6 [] c = "7" -> 7
      [] c = "8" -> 8 [] c = "9" -> 9

DigitChar(n) == CHOOSE c \in Digits : DigitVal(c) = n

\* int("0123")
RECURSIVE int(_)
int(s) ==
    IF s = <<>> THEN 0
    ELSE int(SubSeq(s, 1, Len(s) - 1)) * 10 + DigitVal(s[Len(s)])

\* str(n) of a non-negative int
RECURSIVE str(_)
str(n) == IF n < 10 THEN <<DigitChar(n)>> ELSE str(n \div 10) \o <<DigitChar(n % 10)>>

\* length of the maximal digit run of s that starts at position p (\d*)
RECURSIVE DigitRunLen(_, _)
DigitRunLen(s, p) ==
    IF p <= Len(s) /\ s[p] \in Digits THEN 1 + DigitRunLen(s, p + 1) ELSE 0

HasAt(s, p, lit) ==
    p + Len(lit) - 1 <= Len(s) /\ SubSeq(s, p, p + Len(lit) - 1) = lit

\* the least element of a non-empty set of positions (re.search: leftmost match)
Leftmost(ps) == CHOOSE p \in ps : \A q \in ps : p <= q

\* text.strip()
RECURSIVE lstrip(_)
lstrip(s) == IF s # <<>> /\ s[1] \in Whitespace THEN lstrip(Tail(s)) ELSE s

RECURSIVE rstrip(_)
rstrip(s) ==
    IF s # <<>> /\ s[Len(s)] \in Whitespace THEN rstrip(SubSeq(s, 1, Len(s) - 1)) ELSE s

strip(s) == rstrip(lstrip(s))

\* text.split('-')[0]
RECURSIVE split_first(_)
split_first(s) ==
    IF s = <<>> \/ s[1] = "-" THEN <<>> ELSE <<s[1]>> \o split_first(Tail(s))

\* text.replace('$', '')
RECURSIVE replace_dollar(_)
replace_dollar(s) ==
    IF s = <<>> THEN <<>>
    ELSE IF s[1] = "$" THEN replace_dollar(Tail(s))
    ELSE <<s[1]>> \o replace_dollar(Tail(s))

\* ",".join(tokens)
RECURSIVE join(_)
join(tokens) ==
    IF tokens = <<>> THEN <<>>
    ELSE IF Len(tokens) = 1 THEN tokens[1]
    ELSE tokens[1] \o <<",">> \o join(Tail(tokens))

\* ------------------------------------------------------------------ regular expressions
\* length of the match of \d+\.?\d* at position p, 0 when there is none
AmountLen(s, p) ==
    LET a == DigitRunLen(s, p)
        dot == IF a > 0 /\ p + a <= Len(s) /\ s[p + a] = "." THEN 1 ELSE 0
        b == IF a > 0 THEN DigitRunLen(s, p + a + dot) ELSE 0
    IN  a + dot + b

\* re.search(r'\$(\d+\.?\d*)', text): group(1), or None
search_dollar_amount(s) ==
    LET ps == {p \in 1..Len(s) : s[p] = "$" /\ DigitRunLen(s, p + 1) > 0}
    IN  IF ps = {} THEN None
        ELSE LET p == Leftmost(ps)
             IN  SubSeq(s, p + 1, p + AmountLen(s, p + 1))

\* re.search(r'Buy (\d+)', line): group(1), or None
search_buy(s) ==
    LET lit == <<"B", "u", "y", " ">>
        ps == {p \in 1..Len(s) : HasAt(s, p, lit) /\ DigitRunLen(s, p + 4) > 0}
    IN  IF ps = {} THEN None
        ELSE LET p == Leftmost(ps)
             IN  SubSeq(s, p + 4, p + 3 + DigitRunLen(s, p + 4))

\* re.search(r'\((\d+)%\)', line): group(1), or None
search_percent_int(s) ==
    LET ok(p) == /\ s[p] = "("
                 /\ DigitRunLen(s, p + 1) > 0
                 /\ HasAt(s, p + 1 + DigitRunLen(s, p + 1), <<"%", ")">>)
        ps == {p \in 1..Len(s) : ok(p)}
    IN  IF ps = {} THEN None
        ELSE LET p == Leftmost(ps)
             IN  SubSeq(s, p + 1, p + DigitRunLen(s, p + 1))

\* re.search(r'\((\d+\.?\d*)%\)', text): group(1), or None
search_percent_float(s) ==
    LET ok(p) == /\ s[p] = "("
                 /\ AmountLen(s, p + 1) > 0
                 /\ HasAt(s, p + 1 + AmountLen(s, p + 1), <<"%", ")">>)
        ps == {p \in 1..Len(s) : ok(p)}
    IN  IF ps = {} THEN None
        ELSE LET p == Leftmost(ps)
             IN  SubSeq(s, p + 1, p + AmountLen(s, p + 1))

\* math.floor(float(text)) of a matched \d+\.?\d*: the integer part
floor_float(s) == int(SubSeq(s, 1, DigitRunLen(s, 1)))

\* re.match(r'\d+', text): group(), or None
match_leading_digits(s) ==
    IF DigitRunLen(s, 1) > 0 THEN SubSeq(s, 1, DigitRunLen(s, 1)) ELSE None

\* text.replace('%', '')
RECURSIVE replace_percent(_)
replace_percent(s) ==
    IF s = <<>> THEN <<>>
    ELSE IF s[1] = "%" THEN replace_percent(Tail(s))
    ELSE <<s[1]>> \o replace_percent(Tail(s))

\* ------------------------------------------------------------------ the page (DOM)
(* What the selectors of the code can see of a parsed page:                *)
(*   container  div.tier-buttons is present                                *)
(*   tiers      the div.tier-button elements, in document order; each has  *)
(*              the text of its div.quantity-range and div.discount-info   *)
(*              child (None when the child is missing) and its data-min    *)
(*              attribute (None when missing)                              *)
(*   main       text of span.price.price--withoutTax.price--main, or None  *)
(*   hasSale    that element also carries the class _hasSale               *)
(*   nonSale    text of span.price.price--non-sale, or None                *)
Elem(q, d, m) == [quantity |-> q, discount |-> d, data_min |-> m]
Page(c, ts, m, h, n) ==
    [container |-> c, tiers |-> ts, main |-> m, hasSale |-> h, nonSale |-> n]

\* a response of requests.get + raise_for_status: ok, or a RequestException
Response(page) == [ok |-> TRUE, soup |-> page]
TransportFailure == [ok |-> FALSE, soup |-> Page(FALSE, <<>>, None, FALSE, None)]

\* the value a scraper returns: a dict (main, final), a str (main, on error)
\* or a ProductPricing (initial); `keys` are the keys a dict has
Ret(type, keys, reg, sale, tier, nonsale, err) ==
    [type |-> type, keys |-> keys, regular_price |-> reg, sales_price |-> sale,
     tier_string |-> tier, non_sale_price |-> nonsale, error_message |-> err]

NoTiersPresent == <<"No tiers present">>
AttributeErrorText == <<"'NoneType' object has no attribute 'text'">>

\* soup.select_one(f'div.tier-button[data-min="{quantity}"]'): index of the
\* first such element, 0 when there is none
select_data_min(soup, quantity) ==
    LET ps == {i \in 1..Len(soup.tiers) : soup.tiers[i].data_min = str(quantity)}
    IN  IF ps = {} THEN 0 ELSE Leftmost(ps)

\* "quantity:discount" with the % removed
tier_token(t) == str(t.quantity) \o <<":">> \o replace_percent(t.discount)

RECURSIVE tier_tokens(_)
tier_tokens(list) ==
    IF list = <<>> THEN <<>> ELSE <<tier_token(list[1])>> \o tier_tokens(Tail(list))

\* ------------------------------------------------------------------ requests_main.py
extract_tier_number(line) ==
    LET m == search_buy(line) IN IF m # None THEN int(m) ELSE NoneInt

\* returns <<value, is_discount>>
extract_discount_per_tier(line) ==
    LET m == search_percent_int(line)
    IN  IF m # None THEN <<str(int(m)) \o <<"%">>, TRUE>>
        ELSE <<strip(line), FALSE>>

\* raw_value is a cell of the Name column
extract_quantity_number_from_the_name_column_at_the_beginning(raw_value) ==
    IF ~IsText(raw_value) THEN NoneInt              \* TypeError, caught
    ELSE LET m == match_leading_digits(raw_value)
         IN  IF m # None THEN int(m) ELSE NoneInt

\* the for loop over the tier elements: <<list_of_dict_of_tiers, regular_price>>
RECURSIVE main_tier_loop(_, _, _)
main_tier_loop(tiers, list, regular_price) ==
    IF tiers = <<>> THEN <<list, regular_price>>
    ELSE
        LET tier == tiers[1]
            rest == Tail(tiers)
        IN  IF tier.quantity # None /\ tier.discount # None
            THEN LET quantity == extract_tier_number(tier.quantity)
                     d == extract_discount_per_tier(tier.discount)
                 IN  IF ~d[2] THEN main_tier_loop(rest, list, d[1])
                     ELSE IF TruthyInt(quantity) /\ Truthy(d[1])
                     THEN main_tier_loop(rest,
                              Append(list, [quantity |-> quantity, discount |-> d[1]]),
                              regular_price)
                     ELSE main_tier_loop(rest, list, regular_price)
            ELSE main_tier_loop(rest, list, regular_price)

\* the try block that looks the requested quantity up: the new regular_price
main_quantity_lookup(soup, quantity_from_excel, regular_price) ==
    LET i == select_data_min(soup, quantity_from_excel)
    IN  IF i = 0 THEN regular_price                          \* AttributeError, caught
        ELSE IF soup.tiers[i].discount = None THEN regular_price   \* the same
        ELSE search_dollar_amount(soup.tiers[i].discount)    \* group(1), or None

scrape_tier_data(response, quantity_from_excel) ==
    IF ~response.ok
    THEN Ret("str", {}, None, None, None, None, <<"Requests error: ", "<detail>">>)
    ELSE
        LET soup == response.soup IN
        IF ~soup.container
        THEN IF soup.main = None
             THEN Ret("str", {}, None, None, None, None,
                      <<"Parsing error: ">> \o AttributeErrorText)
             ELSE LET regular_price_unprocessed == strip(soup.main)
                      non_sale_price ==
                          IF soup.nonSale # None THEN strip(soup.nonSale) ELSE None
                  IN  Ret("dict", {"regular_price", "tier_string", "non_sale_price"},
                          strip(split_first(regular_price_unprocessed)), None,
                          NoTiersPresent, non_sale_price, None)
        ELSE
            LET r == main_tier_loop(soup.tiers, <<>>, None)
                list_of_dict_of_tiers == r[1]
                regular_price ==
                    IF TruthyInt(quantity_from_excel)
                    THEN main_quantity_lookup(soup, quantity_from_excel, r[2])
                    ELSE r[2]
                tier_string ==
                    IF list_of_dict_of_tiers # <<>>
                    THEN join(tier_tokens(list_of_dict_of_tiers)) ELSE None
            IN  Ret("dict", {"regular_price", "tier_string"},
                    regular_price, None, tier_string, None, None)

\* ------------------------------------------------------------------ test_file_finalsolution.py
extract_tier_quantity(text) ==
    LET m == search_buy(text) IN IF m # None THEN int(m) ELSE NoneInt

extract_discount_info(text) ==
    LET discount_match == search_percent_float(text)
    IN  IF discount_match # None THEN str(floor_float(discount_match)) \o <<"%">>
        ELSE None

\* str(name) of a cell: a number prints its digits, NaN prints "nan"
str_of_cell(v) ==
    IF IsText(v) THEN v
    ELSE IF v[1] = "<int>" THEN Tail(v)
    ELSE IF v = NaN THEN <<"n", "a", "n">>
    ELSE <<"N", "o", "n", "e">>

extract_quantity_from_name(name) ==
    LET m == match_leading_digits(str_of_cell(name))
    IN  IF m # None THEN int(m) ELSE NoneInt

extract_price_amount(text) ==
    IF ~Truthy(text) THEN None
    ELSE search_dollar_amount(strip(split_first(text)))

\* <<regular_price, sales_price>>; every AttributeError of a missing element
\* is caught and gives <<None, None>>
get_regular_and_sales_price(soup) ==
    IF soup.nonSale = None THEN <<None, None>>
    ELSE
        LET check_if_sales_price_is_present == strip(soup.nonSale) IN
        IF Truthy(check_if_sales_price_is_present)
        THEN IF soup.main = None \/ ~soup.hasSale THEN <<None, None>>
             ELSE LET regular_price == strip(soup.nonSale)
                      sales_price == strip(soup.main)
                  IN  <<IF Truthy(regular_price)
                            THEN extract_price_amount(regular_price) ELSE regular_price,
                        IF Truthy(sales_price)
                            THEN extract_price_amount(sales_price) ELSE sales_price>>
        ELSE IF soup.main = None THEN <<None, None>>
             ELSE LET regular_price == strip(soup.main)
                  IN  <<IF Truthy(regular_price)
                            THEN extract_price_amount(regular_price) ELSE regular_price,
                        None>>

FinalKeys == {"regular_price", "sales_price", "tier_string"}

scrape_no_tiers(soup) ==
    LET p == get_regular_and_sales_price(soup)
    IN  Ret("dict", FinalKeys, p[1], p[2], NoTiersPresent, None, None)

RECURSIVE build_tier_list(_)
build_tier_list(tiers) ==
    IF tiers = <<>> THEN <<>>
    ELSE
        LET tier == tiers[1]
            rest == build_tier_list(Tail(tiers))
        IN  IF ~(tier.quantity # None /\ tier.discount # None) THEN rest
            ELSE LET quantity == extract_tier_quantity(tier.quantity)
                     discount == extract_discount_info(tier.discount)
                 IN  IF TruthyInt(quantity) /\ Truthy(discount)
                     THEN <<[quantity |-> quantity, discount |-> discount]>> \o rest
                     ELSE rest

\* final_scrape_tier_data with the override of requests_main.py: the label of the
\* tier element of the requested quantity replaces the regular price
final_scrape_tier_data_targeted(response, quantity_from_excel) ==
    IF ~response.ok
    THEN Ret("dict", FinalKeys, None, None,
             <<"Request error: ", "<detail>">>, None, None)
    ELSE
        LET soup == response.soup IN
        IF ~soup.container THEN scrape_no_tiers(soup)
        ELSE LET tier_list == build_tier_list(soup.tiers)
                 tier_string ==
                     IF tier_list # <<>> THEN join(tier_tokens(tier_list)) ELSE None
                 p == get_regular_and_sales_price(soup)
                 regular_price ==
                     IF TruthyInt(quantity_from_excel)
                     THEN main_quantity_lookup(soup, quantity_from_excel, p[1])
                     ELSE p[1]
             IN  Ret("dict", FinalKeys, regular_price, p[2], tier_string, None, None)

final_scrape_tier_data(response, quantity_from_excel) ==
    IF ~response.ok
    THEN Ret("dict", FinalKeys, None, None,
             <<"Request error: ", "<detail>">>, None, None)
    ELSE
        LET soup == response.soup IN
        IF ~soup.container THEN scrape_no_tiers(soup)
        ELSE LET tier_list == build_tier_list(soup.tiers)
                 tier_string ==
                     IF tier_list # <<>> THEN join(tier_tokens(tier_list)) ELSE None
                 p == get_regular_and_sales_price(soup)
             IN  Ret("dict", FinalKeys, p[1], p[2], tier_string, None, None)

\* ------------------------------------------------------------------ test_file_initial.py
PriceExtractor_extract_tier_quantity(text) ==
    LET m == search_buy(text) IN IF m # None THEN int(m) ELSE NoneInt

\* returns <<discount_value, is_discount_percentage>>
PriceExtractor_extract_discount_info(text) ==
    LET m == search_percent_int(text)
    IN  IF m # None THEN <<m \o <<"%">>, TRUE>> ELSE <<strip(text), FALSE>>

PriceExtractor_extract_quantity_from_name(name) ==
    LET m == match_leading_digits(str_of_cell(name))
    IN  IF m # None THEN int(m) ELSE NoneInt

PriceExtractor_extract_price_amount(text) == search_dollar_amount(text)

_extract_regular_price_without_tiers(soup) ==
    IF soup.main = None
    THEN Ret("ProductPricing", {}, None, None, None, None, <<"No main price found">>)
    ELSE Ret("ProductPricing", {}, strip(split_first(strip(soup.main))), None,
             NoTiersPresent,
             IF soup.nonSale # None THEN strip(soup.nonSale) ELSE None, None)

\* the TierData list; discount_percentage is int(discount_value.replace('%', ''))
RECURSIVE _extract_tier_data(_)
_extract_tier_data(tiers) ==
    IF tiers = <<>> THEN <<>>
    ELSE
        LET tier == tiers[1]
            rest == _extract_tier_data(Tail(tiers))
        IN  IF ~(tier.quantity # None /\ tier.discount # None) THEN rest
            ELSE LET quantity == PriceExtractor_extract_tier_quantity(tier.quantity)
                     d == PriceExtractor_extract_discount_info(tier.discount)
                 IN  IF ~d[2] THEN rest
                     ELSE IF TruthyInt(quantity) /\ Truthy(d[1])
                     THEN <<[quantity |-> quantity,
                             discount |-> str(int(replace_percent(d[1])))]>> \o rest
                     ELSE rest

_get_price_for_quantity(soup, target_quantity) ==
    LET i == select_data_min(soup, target_quantity)
    IN  IF i = 0 THEN None
        ELSE IF soup.tiers[i].discount = None THEN None
        ELSE PriceExtractor_extract_price_amount(soup.tiers[i].discount)

scrape_product_pricing(response, target_quantity) ==
    IF ~response.ok
    THEN Ret("ProductPricing", {}, None, None, None, None, <<"Failed to load page">>)
    ELSE
        LET soup == response.soup IN
        IF ~soup.container THEN _extract_regular_price_without_tiers(soup)
        ELSE LET tier_data == _extract_tier_data(soup.tiers)
                 tier_string ==
                     IF tier_data # <<>> THEN join(tier_tokens(tier_data)) ELSE None
                 regular_price ==
                     IF TruthyInt(target_quantity)
                     THEN _get_price_for_quantity(soup, target_quantity) ELSE None
             IN  Ret("ProductPricing", {}, regular_price, None, tier_string, None, None)

\* ------------------------------------------------------------------ the table (DataFrame)
(* df.columns is the sequence of column names, df.cells[i][c] the cell of  *)
(* row i (1-based here, `index + 1` of the code) in the column named c.    *)
RegularCol == "PLK Regular price"
SaleCol == "PLK Sale price"
TierCol == "PLK Percentage Tiered Prices"
NameCol == "Name"
NoURLProvided == <<"No URL provided">>
Domain == <<"pureleafkratom">>

ColumnSet(frame) == {frame.columns[k] : k \in 1..Len(frame.columns)}

\* a missing value is stored as NaN
Stored(value) == IF value = None THEN NaN ELSE value

\* df.loc[index, col] = value: sets the cell, creating the column when it is new
loc_set(frame, i, col, value) ==
    IF col \in ColumnSet(frame)
    THEN [frame EXCEPT !.cells[i][col] = Stored(value)]
    ELSE [columns |-> Append(frame.columns, col),
          cells |-> [r \in DOMAIN frame.cells |->
                        [c \in ColumnSet(frame) \cup {col} |->
                            IF c # col THEN frame.cells[r][c]
                            ELSE IF r = i THEN Stored(value) ELSE NaN]]]

\* df.iloc[index, k] = value can not enlarge the table: IndexError
iloc_raises(frame, k) == k + 1 > Len(frame.columns)

iloc_set(frame, i, k, value) ==
    [frame EXCEPT !.cells[i][frame.columns[k + 1]] = Stored(value)]

\* row.iloc[0]
url_of(frame, i) == frame.cells[i][frame.columns[1]]

\* pd.isna(url) or url == ''
is_empty_url(url) == url = NaN \/ url = None \/ url = <<>>

\* "pureleafkratom" in url, of a text url
contains_domain(url) ==
    \E p \in 1..Len(url) : HasAt(url, p, Domain)

\* ------------------------------------------------------------------ one iteration of the row loop
(* The result of the loop body for row i:                                  *)
(*   frame    the table afterwards                                         *)
(*   did      what happened, in order: "fetch", "sleep"                    *)
(*   outcome  "sentinel"  empty URL                                        *)
(*            "skipped"   other domain                                     *)
(*            "written"   the try block ran to its end                     *)
(*            "caught"    the try block raised and the except clause ran   *)
(*            "raised"    an exception left the loop                       *)
(*   scraped  the scraper's return value (NoScrape when it was not called) *)
(*   quantity the quantity derived from the Name cell                      *)
NoScrape == Ret("none", {}, None, None, None, None, None)

Iteration(frame, did, outcome, scraped, quantity) ==
    [frame |-> frame, did |-> did, outcome |-> outcome, scraped |-> scraped,
     quantity |-> quantity]

\* main_update_row with the two writes made apart: the tier string is stored although
\* the regular price is absent
main_update_row_unpaired(frame, i, scraped_data) ==
    IF scraped_data.type = "str" THEN <<frame, TRUE>>
    ELSE IF scraped_data.regular_price = None
    THEN <<loc_set(frame, i, TierCol, scraped_data.tier_string), TRUE>>
    ELSE <<loc_set(loc_set(frame, i, RegularCol,
                           replace_dollar(scraped_data.regular_price)),
                   i, TierCol, scraped_data.tier_string),
           FALSE>>

\* requests_main.py, the try block of the loop: <<frame, raised>>
main_update_row(frame, i, scraped_data) ==
    IF scraped_data.type = "str" THEN <<frame, TRUE>>           \* TypeError
    ELSE IF scraped_data.regular_price = None THEN <<frame, TRUE>>   \* AttributeError
    ELSE <<loc_set(loc_set(frame, i, RegularCol,
                           replace_dollar(scraped_data.regular_price)),
                   i, TierCol, scraped_data.tier_string),
           FALSE>>

process_excel_file_row(frame, i, response) ==
    LET url == url_of(frame, i) IN
    IF NameCol \notin ColumnSet(frame)
    THEN Iteration(frame, <<>>, "raised", NoScrape, NoneInt)        \* KeyError
    ELSE
        LET quantity ==
                extract_quantity_number_from_the_name_column_at_the_beginning(
                    frame.cells[i][NameCol])
        IN
        IF is_empty_url(url)
        THEN IF iloc_raises(frame, 8)
             THEN Iteration(frame, <<>>, "raised", NoScrape, quantity)   \* IndexError
             ELSE IF iloc_raises(frame, 9)
             THEN Iteration(iloc_set(frame, i, 8, NoURLProvided), <<>>, "raised",
                            NoScrape, quantity)
             ELSE Iteration(iloc_set(iloc_set(frame, i, 8, NoURLProvided),
                                     i, 9, NoURLProvided),
                            <<>>, "sentinel", NoScrape, quantity)
        ELSE IF ~IsText(url)
        THEN Iteration(frame, <<>>, "raised", NoScrape, quantity)    \* TypeError
        ELSE IF ~contains_domain(url)
        THEN Iteration(frame, <<>>, "skipped", NoScrape, quantity)
        ELSE
            LET scraped_data == scrape_tier_data(response, quantity)
                u == main_update_row(frame, i, scraped_data)
            IN  IF u[2]
                THEN Iteration(u[1], <<"fetch">>, "caught", scraped_data, quantity)
                ELSE Iteration(u[1], <<"fetch", "sleep">>, "written", scraped_data,
                               quantity)

\* final_update_row without the inversion: each price under its own name
final_update_row_straight(frame, i, scraped_data) ==
    LET prices ==
            IF Truthy(scraped_data.sales_price) /\ Truthy(scraped_data.regular_price)
            THEN loc_set(loc_set(frame, i, SaleCol,
                                 replace_dollar(scraped_data.sales_price)),
                         i, RegularCol, replace_dollar(scraped_data.regular_price))
            ELSE IF Truthy(scraped_data.regular_price)
            THEN loc_set(frame, i, RegularCol,
                         replace_dollar(scraped_data.regular_price))
            ELSE frame
    IN  loc_set(prices, i, TierCol, scraped_data.tier_string)

\* test_file_finalsolution.py, the try block of the loop
final_update_row(frame, i, scraped_data) ==
    LET prices ==
            IF Truthy(scraped_data.sales_price) /\ Truthy(scraped_data.regular_price)
            THEN loc_set(loc_set(frame, i, RegularCol,
                                 replace_dollar(scraped_data.sales_price)),
                         i, SaleCol, replace_dollar(scraped_data.regular_price))
            ELSE IF Truthy(scraped_data.regular_price)
            THEN loc_set(frame, i, RegularCol,
                         replace_dollar(scraped_data.regular_price))
            ELSE frame
    IN  loc_set(prices, i, TierCol, scraped_data.tier_string)

final_process_excel_file_row(frame, i, response) ==
    LET url == url_of(frame, i)
        quantity ==
            extract_quantity_from_name(
                IF NameCol \in ColumnSet(frame) THEN frame.cells[i][NameCol] ELSE <<>>)
    IN
    IF is_empty_url(url)
    THEN Iteration(loc_set(loc_set(frame, i, RegularCol, NoURLProvided),
                           i, TierCol, NoURLProvided),
                   <<>>, "sentinel", NoScrape, quantity)
    ELSE IF ~IsText(url)
    THEN Iteration(frame, <<>>, "raised", NoScrape, quantity)        \* TypeError
    ELSE IF ~contains_domain(url)
    THEN Iteration(frame, <<>>, "skipped", NoScrape, quantity)
    ELSE
        LET scraped_data == final_scrape_tier_data(response, quantity)
        IN  Iteration(final_update_row(frame, i, scraped_data),
                      <<"fetch", "sleep">>, "written", scraped_data, quantity)

\* test_file_initial.py
_update_row_with_error(frame, i, error_message) ==
    loc_set(loc_set(frame, i, RegularCol, error_message), i, TierCol, error_message)

_update_row_with_data(frame, i, pricing_data) ==
    LET price ==
            IF Truthy(pricing_data.regular_price)
            THEN loc_set(frame, i, RegularCol,
                         replace_dollar(pricing_data.regular_price))
            ELSE frame
    IN  loc_set(price, i, TierCol, pricing_data.tier_string)

process_file_row(frame, i, response) ==
    LET url == url_of(frame, i) IN
    IF is_empty_url(url)
    THEN Iteration(_update_row_with_error(frame, i, NoURLProvided),
                   <<>>, "sentinel", NoScrape, NoneInt)
    ELSE IF ~IsText(url)
    THEN Iteration(frame, <<>>, "raised", NoScrape, NoneInt)         \* TypeError
    ELSE IF ~contains_domain(url)
    THEN Iteration(frame, <<>>, "skipped", NoScrape, NoneInt)
    ELSE
        LET quantity ==
                IF NameCol \in ColumnSet(frame)
                THEN PriceExtractor_extract_quantity_from_name(frame.cells[i][NameCol])
                ELSE NoneInt
            pricing_data == scrape_product_pricing(response, quantity)
        IN  Iteration(_update_row_with_data(frame, i, pricing_data),
                      <<"fetch", "sleep">>, "written", pricing_data, quantity)

\* ------------------------------------------------------------------ inputs
Variants == {"main", "final", "initial"}

\* price texts
T_4_89 == <<" ", "$", "4", ".", "8", "9", " ">>
T_13_49 == <<"$", "1", "3", ".", "4", "9">>
T_range == <<"$", "2", "1", ".", "4", "9", " ", "-", " ", "$", "9", "8">>
\* tier labels
Buy1 == <<"B", "u", "y", " ", "1">>
Buy10 == <<"B", "u", "y", " ", "1", "0">>
Buy25 == <<"B", "u", "y", " ", "2", "5">>
Buy0 == <<"B", "u", "y", " ", "0">>
Plus10 == <<"1", "0", "+">>
Pct5 == <<"(", "5", "%", ")">>
Pct10 == <<"(", "1", "0", "%", ")">>
Pct3_99 == <<"(", "3", ".", "9", "9", "%", ")">>
Price21_49 == <<"$", "2", "1", ".", "4", "9">>
Price19_99Pct5 == <<"$", "1", "9", ".", "9", "9", " ", "(", "5", "%", ")">>

TierElems ==
    { Elem(Buy10, Pct5, <<"1", "0">>),
      Elem(Buy25, Pct10, <<"2", "5">>),
      Elem(Buy1, Price21_49, <<"1">>),            \* the fallback marker row
      Elem(None, Pct5, <<"1", "0">>),             \* no div.quantity-range
      Elem(Buy10, None, <<"1", "0">>),            \* no div.discount-info
      Elem(Buy0, Pct5, <<"0">>),                  \* quantity 0
      Elem(Plus10, Pct10, <<"1", "0">>),          \* no "Buy N"
      Elem(Buy25, Pct3_99, <<"2", "5">>),         \* a fractional percentage
      Elem(Buy10, Price19_99Pct5, <<"1", "0">>) } \* an amount and a percentage

RECURSIVE SeqsUpTo(_, _)
SeqsUpTo(S, n) ==
    IF n = 0 THEN {<<>>}
    ELSE LET shorter == SeqsUpTo(S, n - 1)
         IN  shorter \cup {Append(q, e) : q \in {x \in shorter : Len(x) = n - 1}, e \in S}

\* the price elements of a page: <<main, hasSale, nonSale>>
PriceParts ==
    {<<m, h, n>> : m \in {None, T_4_89, T_range}, h \in BOOLEAN,
                   n \in {None, <<>>, T_13_49}} \ {<<None, TRUE, n>> : n \in {None, <<>>, T_13_49}}

Pages ==
    {Page(FALSE, <<>>, pp[1], pp[2], pp[3]) : pp \in PriceParts}
    \cup {Page(TRUE, ts, pp[1], pp[2], pp[3]) :
              ts \in SeqsUpTo(TierElems, MaxTiers), pp \in PriceParts}

Responses == {TransportFailure} \cup {Response(page) : page \in Pages}

\* the requested quantities of the Assembler: None, two that match a data-min, one that does not
Quantities == {NoneInt, 10, 25, 7}

\* the pages the batch run is served
RunPages ==
    { Page(FALSE, <<>>, T_4_89, FALSE, None),          \* a plain price
      Page(FALSE, <<>>, T_4_89, FALSE, <<>>),          \* an empty non-sale element
      Page(FALSE, <<>>, T_4_89, TRUE, T_13_49),        \* a promotional price
      Page(FALSE, <<>>, <<" ">>, TRUE, T_13_49),       \* a promotional price left blank
      Page(FALSE, <<>>, None, FALSE, None),            \* no price element
      Page(TRUE, <<Elem(Buy1, Price21_49, <<"1">>), Elem(Buy10, Pct5, <<"1", "0">>)>>,
           None, FALSE, None),                         \* tiers and a fallback marker
      Page(TRUE, <<Elem(Buy10, Pct5, <<"1", "0">>), Elem(Buy25, Pct10, <<"2", "5">>)>>,
           T_4_89, FALSE, <<>>) }                      \* tiers only

RunResponses == {TransportFailure} \cup {Response(page) : page \in RunPages}

\* the cells of the input table
URL_store == <<"https://", "pureleafkratom", ".com/a">>
URL_other == <<"https://", "example", ".com/a">>
URL_number == <<"<int>", "4", "2">>
Name_10 == <<"1", "0", " ", "c", "t">>
Name_caps == <<"c", "a", "p", "s">>
Name_number == <<"<int>", "2", "5">>
Old == <<"o", "l", "d">>
Filler == <<"x">>

\* <<url, name>> of a row
RowKinds ==
    { <<NaN, Name_caps>>, <<<<>>, Name_10>>, <<URL_other, Name_caps>>,
      <<URL_number, Name_10>>, <<URL_store, Name_10>>, <<URL_store, Name_caps>>,
      <<URL_store, Name_number>>, <<URL_store, NaN>> }

\* the header rows: outputs in columns I and J; no output columns yet, other data
\* in I and J; two columns only; no Name column
Layouts ==
    { <<"URL", "Name", "C", "D", "E", "F", "G", "H", RegularCol, TierCol, SaleCol>>,
      <<"URL", "Name", "C", "D", "E", "F", "G", "H", "I", "J">>,
      <<"URL", "Name">>,
      <<"URL", "B", "C", "D", "E", "F", "G", "H", RegularCol, TierCol>> }

MakeFrame(layout, rows) ==
    [columns |-> layout,
     cells |-> [i \in 1..MaxRows |->
                  [c \in {layout[k] : k \in 1..Len(layout)} |->
                      IF c = layout[1] THEN rows[i][1]
                      ELSE IF c = NameCol THEN rows[i][2]
                      ELSE IF c \in {RegularCol, TierCol, SaleCol} THEN Old
                      ELSE Filler]]]

Datasets == {MakeFrame(layout, rows) : layout \in Layouts, rows \in [1..MaxRows -> RowKinds]}

EmptyFrame == [columns |-> <<>>, cells |-> <<>>]

\* ------------------------------------------------------------------ state
VARIABLES
    variant,        \* which iteration of the program runs
    df,             \* the table
    index,          \* rows the loop has gone through
    pc,             \* position in process_excel_file / process_file
    response,       \* what the last requests.get gave
    quantity,       \* the last requested quantity
    scraped_data,   \* the last return value of the scraper
    events,         \* <<"fetch", row>>, <<"sleep", row>> and <<"to_excel", 0>>, in order
    outcomes,       \* the outcome of each row gone through
    exit_status     \* the exit status of the interpreter once the script has ended

vars == <<variant, df, index, pc, response, quantity, scraped_data, events, outcomes,
          exit_status>>

Init ==
    /\ variant \in Variants
    /\ df \in Datasets
    /\ index = 0
    /\ pc = "start"
    /\ response = TransportFailure
    /\ quantity = NoneInt
    /\ scraped_data = NoScrape
    /\ events = <<>>
    /\ outcomes = <<>>
    /\ exit_status = NoneInt

\* pd.read_excel: the table is loaded, or the function prints and returns; the call
\* is the last statement of the script, so the interpreter then ends with status 0
read_excel ==
    /\ pc = "start"
    /\ \E readable \in BOOLEAN :
           /\ pc' = IF readable THEN "loop" ELSE "load_failed"
           /\ exit_status' = IF readable THEN exit_status ELSE 0
    /\ UNCHANGED <<variant, df, index, response, quantity, scraped_data, events, outcomes>>

\* the state after the loop body `it` of row index + 1; an exception that leaves
\* the loop is caught nowhere, and the interpreter ends with status 1
Step(it, resp) ==
    /\ exit_status' = IF it.outcome = "raised" THEN 1 ELSE exit_status
    /\ df' = it.frame
    /\ index' = index + 1
    /\ pc' = IF it.outcome = "raised" THEN "raised" ELSE "loop"
    /\ events' = events \o [k \in 1..Len(it.did) |-> <<it.did[k], index + 1>>]
    /\ outcomes' = Append(outcomes, it.outcome)
    /\ scraped_data' = it.scraped
    /\ quantity' = it.quantity
    /\ response' = IF it.did # <<>> THEN resp ELSE response
    /\ UNCHANGED variant

main_row ==
    /\ variant = "main" /\ pc = "loop" /\ index < MaxRows
    /\ \E resp \in RunResponses : Step(process_excel_file_row(df, index + 1, resp), resp)

final_row ==
    /\ variant = "final" /\ pc = "loop" /\ index < MaxRows
    /\ \E resp \in RunResponses :
           Step(final_process_excel_file_row(df, index + 1, resp), resp)

initial_row ==
    /\ variant = "initial" /\ pc = "loop" /\ index < MaxRows
    /\ \E resp \in RunResponses : Step(process_file_row(df, index + 1, resp), resp)

\* df.to_excel(output_file, index=False), after the loop; the function returns and
\* the script ends
to_excel ==
    /\ pc = "loop" /\ index = MaxRows
    /\ pc' = "done"
    /\ exit_status' = 0
    /\ events' = Append(events, <<"to_excel", 0>>)
    /\ UNCHANGED <<variant, df, index, response, quantity, scraped_data, outcomes>>

Next == read_excel \/ main_row \/ final_row \/ initial_row \/ to_excel

Spec == Init /\ [][Next]_vars

\* ------------------------------------------------------------------ the Assembler alone
\* one page, one requested quantity, one call of the scraper
InitScrape ==
    /\ variant \in Variants
    /\ response \in Responses
    /\ quantity \in Quantities
    /\ pc = "scrape"
    /\ df = EmptyFrame
    /\ index = 0
    /\ scraped_data = NoScrape
    /\ events = <<>>
    /\ outcomes = <<>>
    /\ exit_status = NoneInt

Scrape ==
    /\ pc = "scrape"
    /\ scraped_data' =
           CASE variant = "main" -> scrape_tier_data(response, quantity)
             [] variant = "final" -> final_scrape_tier_data(response, quantity)
             [] variant = "initial" -> scrape_product_pricing(response, quantity)
    /\ pc' = "scraped"
    /\ UNCHANGED <<variant, df, index, response, quantity, events, outcomes, exit_status>>

SpecScrape == InitScrape /\ [][Scrape]_vars

\* ------------------------------------------------------------------ vocabulary of the claims
\* the row the loop has just gone through
JustProcessed == index' = index + 1
Row == index'

\* the Assembler ended in its Error outcome
ErrorOutcome(v, rec) ==
    CASE v = "main" -> rec.type = "str"
      [] v = "initial" -> rec.error_message # None
      [] v = "final" -> /\ rec.tier_string # <<>>
                        /\ rec.tier_string[1] \in {"Request error: ", "Parsing error: "}

\* the cell of row i in column col is what it was (a column that does not exist
\* has no cell, and a cell of a column other rows created is empty)
CellUnchanged(i, col) ==
    IF col \in ColumnSet(df)
    THEN col \in ColumnSet(df') /\ df'.cells[i][col] = df.cells[i][col]
    ELSE col \in ColumnSet(df') => df'.cells[i][col] = NaN

\* the table has a Name column and the output columns where requests_main.py
\* comments them to be, in I and J
CanonicalLayout ==
    /\ NameCol \in ColumnSet(df)
    /\ Len(df.columns) >= 10
    /\ df.columns[9] = RegularCol
    /\ df.columns[10] = TierCol

\* the row just gone through fetched its page
Fetched == \E k \in 1..Len(events') : events'[k] = <<"fetch", index'>>

Count(name) == Cardinality({k \in 1..Len(events) : events[k][1] = name})

EventsOfRow(i) == {k \in 1..Len(events) : events[k][2] = i}

\* C1: failure isolation.  Whatever the outcome of a row, the loop goes on to
\* every later row, and df.to_excel runs exactly once, after the last row and never
\* before.  Stated for tables in the canonical layout: once the table is loaded the
\* run is in the loop or has saved, the save is the last event and happens once.
C1_FailureIsolation ==
    CanonicalLayout =>
        /\ pc \in {"start", "load_failed", "loop", "done"}
        /\ Count("to_excel") <= 1
        /\ Count("to_excel") = 1 =>
               index = MaxRows /\ events[Len(events)] = <<"to_excel", 0>>
        /\ pc = "done" => Count("to_excel") = 1

\* a price a record has: present and not the empty text
Has(price) == Truthy(price)

\* no "$" is left in a text
NoDollar(text) == \A k \in 1..Len(text) : text[k] # "$"

PromoPage == Page(FALSE, <<>>, T_4_89, TRUE, T_13_49)

\* C2: inverted sale/regular write (test_file_finalsolution.py).  When the record of
\* a row has both a sales price and a regular price, the "regular price" column gets
\* the sales price and the "sale price" column the regular price, with no currency
\* symbol; when it has a regular price only, that goes to the "regular price" column
\* and the "sale price" column is left as it was.  A page showing "$13.49" non-sale and
\* "$4.89" main gives "4.89" in the regular and "13.49" in the sale column.
C2_InvertedWrite ==
    [][(variant = "final" /\ JustProcessed /\ outcomes'[Row] = "written") =>
          LET rec == scraped_data'
              cells == df'.cells[Row]
          IN  /\ (Has(rec.sales_price) /\ Has(rec.regular_price)) =>
                    /\ cells[RegularCol] = rec.sales_price
                    /\ cells[SaleCol] = rec.regular_price
                    /\ NoDollar(cells[RegularCol]) /\ NoDollar(cells[SaleCol])
              /\ (Has(rec.regular_price) /\ ~Has(rec.sales_price)) =>
                    /\ cells[RegularCol] = rec.regular_price
                    /\ NoDollar(cells[RegularCol])
                    /\ CellUnchanged(Row, SaleCol)
              /\ response' = Response(PromoPage) =>
                    /\ cells[RegularCol] = <<"4", ".", "8", "9">>
                    /\ cells[SaleCol] = <<"1", "3", ".", "4", "9">>
    ]_vars

\* C2 happens: row 1 was written from a promotional page, row 2 from a page with a
\* regular price only
C2_Witness ==
    /\ variant = "final" /\ index = 2
    /\ outcomes[1] = "written" /\ outcomes[2] = "written"
    /\ SaleCol \in ColumnSet(df)
    /\ df.cells[1][RegularCol] = <<"4", ".", "8", "9">>
    /\ df.cells[1][SaleCol] = <<"1", "3", ".", "4", "9">>
    /\ Has(scraped_data.regular_price) /\ ~Has(scraped_data.sales_price)
    /\ df.cells[2][RegularCol] = scraped_data.regular_price
    /\ df.cells[2][SaleCol] = Old

\* the amount a price element shows: of the first segment of a range, what follows "$"
AmountOf(text) == search_dollar_amount(split_first(text))

\* C3: non-tiered price precedence (get_regular_and_sales_price / scrape_no_tiers).
\* For a page without tiers that has a primary price element: when a non-sale
\* element with a price is there too, sales_price is the primary and regular_price
\* the non-sale amount; otherwise regular_price is the primary amount and there is
\* no sales_price.
C3_NonTieredPrecedence ==
    (pc = "scraped" /\ variant = "final" /\ response.ok
        /\ ~response.soup.container /\ response.soup.main # None) =>
        LET soup == response.soup IN
        IF soup.nonSale # None /\ Truthy(strip(soup.nonSale))
        THEN /\ scraped_data.sales_price = AmountOf(soup.main)
             /\ scraped_data.regular_price = AmountOf(soup.nonSale)
        ELSE /\ scraped_data.regular_price = AmountOf(soup.main)
             /\ scraped_data.sales_price = None

NoPricesNoSchedule(rec) ==
    /\ rec.regular_price = None
    /\ rec.sales_price = None
    /\ rec.non_sale_price = None
    /\ rec.tier_string # NoTiersPresent
    /\ rec.tier_string = None \/ ~(\E k \in 1..Len(rec.tier_string) : rec.tier_string[k] = ":")

\* C4: required price element.  A page with neither the tier container nor a primary
\* price element ends in the Error outcome, with no prices and no schedule, never as
\* a resolved non-tiered record.
C4_RequiredPriceElement ==
    (pc = "scraped" /\ response.ok
        /\ ~response.soup.container /\ response.soup.main = None) =>
        /\ ErrorOutcome(variant, scraped_data)
        /\ NoPricesNoSchedule(scraped_data)

\* C5: errors never reach the data columns (process_excel_file).  When the Assembler
\* ends in Error for a row, the regular-price, sale-price and tier-schedule cells of
\* the row stay as they were.
C5_ErrorsLeaveColumns ==
    [][(variant \in {"main", "final"} /\ JustProcessed /\ Fetched
          /\ ErrorOutcome(variant, scraped_data')) =>
          /\ CellUnchanged(Row, RegularCol)
          /\ CellUnchanged(Row, SaleCol)
          /\ CellUnchanged(Row, TierCol)
    ]_vars

\* the default regular price of a tiered page, before the lookup: the label of the
\* last tier row that shows no percentage (the fallback marker), if any
RECURSIVE FallbackMarker(_)
FallbackMarker(tiers) ==
    IF tiers = <<>> THEN None
    ELSE LET t == tiers[Len(tiers)]
         IN  IF t.quantity # None /\ t.discount # None
                 /\ search_percent_int(t.discount) = None
             THEN strip(t.discount)
             ELSE FallbackMarker(SubSeq(tiers, 1, Len(tiers) - 1))

DefaultRegularPrice(v, soup) == IF v = "main" THEN FallbackMarker(soup.tiers) ELSE None

\* the lookup of the requested quantity finds no element, or one whose label shows
\* no currency amount
LookupMisses(soup, q) ==
    LET hits == {k \in 1..Len(soup.tiers) : soup.tiers[k].data_min = str(q)}
    IN  \/ hits = {}
        \/ LET t == soup.tiers[Leftmost(hits)]
           IN  t.discount = None \/ search_dollar_amount(t.discount) = None

\* every percentage a tier label of the page shows is a whole number
WholePercentages(soup) ==
    \A k \in 1..Len(soup.tiers) :
        soup.tiers[k].discount # None =>
            search_percent_float(soup.tiers[k].discount)
                = search_percent_int(soup.tiers[k].discount)

\* C6: the quantity-targeted lookup is best-effort (requests_main.py,
\* test_file_initial.py).  On a tiered page with a requested quantity, when no tier
\* element has that data-min or the matched label shows no currency amount, the
\* regular price returned is the default one and no exception leaves the scraper.
\* Stated for pages whose percentages are whole numbers.
C6_BestEffortLookup ==
    (pc = "scraped" /\ variant \in {"main", "initial"} /\ response.ok
        /\ response.soup.container /\ TruthyInt(quantity)
        /\ WholePercentages(response.soup)
        /\ LookupMisses(response.soup, quantity)) =>
        /\ ~ErrorOutcome(variant, scraped_data)
        /\ scraped_data.regular_price = DefaultRegularPrice(variant, response.soup)

\* C7: politeness throttle.  Between any two consecutive fetches of a run the delay
\* is slept at least once, whatever the earlier row's outcome; a row with an empty
\* URL or another domain never sleeps.  Stated for tables in the canonical layout.
C7_Throttle ==
    CanonicalLayout =>
    /\ \A a, b \in 1..Len(events) :
           (a < b /\ events[a][1] = "fetch" /\ events[b][1] = "fetch") =>
               \E k \in (a + 1)..(b - 1) : events[k][1] = "sleep"
    /\ \A k \in 1..Len(events) :
           events[k][1] = "sleep" => outcomes[events[k][2]] \notin {"sentinel", "skipped"}

\* C8: empty-URL row.  A row whose URL is absent or empty gets "No URL provided" in
\* the regular-price and the tier-schedule column, the two columns the rows of the
\* storefront write by name, and neither fetches nor sleeps.  Stated for tables that
\* have a Name column and at least ten columns.
C8_EmptyUrlSentinel ==
    (NameCol \in ColumnSet(df) /\ Len(df.columns) >= 10) =>
        \A i \in 1..index :
            is_empty_url(url_of(df, i)) =>
                /\ RegularCol \in ColumnSet(df) /\ df.cells[i][RegularCol] = NoURLProvided
                /\ TierCol \in ColumnSet(df) /\ df.cells[i][TierCol] = NoURLProvided
                /\ EventsOfRow(i) = {}

Unrecognized(url) == ~is_empty_url(url) /\ (IsText(url) => ~contains_domain(url))

\* C9: unrecognized-domain row.  A row whose non-empty URL does not contain the
\* storefront's domain, text or not, has no cell changed, no fetch and no delay, and
\* the loop continues with the next row.  Stated for tables in the canonical layout.
C9_UnrecognizedSkipped ==
    [][(CanonicalLayout /\ JustProcessed /\ Unrecognized(url_of(df, Row))) =>
          /\ df' = df
          /\ events' = events
          /\ pc' = "loop"
    ]_vars

\* the tier elements the schedule is made of: both sub-elements, a non-zero "Buy N"
\* and a parenthesized percentage, whole or fractional
InSchedule(t) ==
    /\ t.quantity # None /\ t.discount # None
    /\ search_buy(t.quantity) # None /\ int(search_buy(t.quantity)) # 0
    /\ search_percent_float(t.discount) # None

ScheduleToken(t) ==
    str(int(search_buy(t.quantity))) \o <<":">>
        \o str(floor_float(search_percent_float(t.discount)))

ScheduleOf(tiers) ==
    LET kept == SelectSeq(tiers, InSchedule)
    IN  join([k \in 1..Len(kept) |-> ScheduleToken(kept[k])])

\* C10: tier schedule content and order (requests_main.py,
\* test_file_finalsolution.py).  The tier string of a tiered page is the comma-joined
\* "quantity:percent" of exactly the schedule's elements, in document order,
\* duplicates kept; it is absent when the schedule is empty.
C10_TierSchedule ==
    (pc = "scraped" /\ variant \in {"main", "final"} /\ response.ok
        /\ response.soup.container) =>
        scraped_data.tier_string =
            IF SelectSeq(response.soup.tiers, InSchedule) = <<>> THEN None
            ELSE ScheduleOf(response.soup.tiers)

\* a tier row that shows no percentage: the fallback (regular price) row
FallbackRow(t) ==
    /\ t.quantity # None /\ t.discount # None
    /\ search_percent_float(t.discount) = None

\* the tier container holds percentage rows of the schedule and one fallback row,
\* and nothing else
TiersAndOneFallback(soup) ==
    /\ \A k \in 1..Len(soup.tiers) : InSchedule(soup.tiers[k]) \/ FallbackRow(soup.tiers[k])
    /\ Len(SelectSeq(soup.tiers, FallbackRow)) = 1
    /\ Len(SelectSeq(soup.tiers, InSchedule)) >= 1

\* a price is the one a label shows, with or without its currency symbol
PriceFrom(label, price) ==
    price # None /\ replace_dollar(price) = replace_dollar(strip(label))

\* C11: tiered page without a requested quantity (requests_main.py,
\* test_file_finalsolution.py).  When the tier container holds percentage rows and one
\* fallback row, the tier string is made of the percentage rows only and the regular
\* price is the one of the fallback row's label.  Stated for pages whose percentages
\* are whole numbers.
C11_TieredNoQuantity ==
    (pc = "scraped" /\ variant \in {"main", "final"} /\ response.ok
        /\ response.soup.container /\ ~TruthyInt(quantity)
        /\ WholePercentages(response.soup)
        /\ TiersAndOneFallback(response.soup)) =>
        LET tiers == response.soup.tiers
            fallback == SelectSeq(tiers, FallbackRow)[1]
        IN  /\ scraped_data.tier_string = ScheduleOf(SelectSeq(tiers, InSchedule))
            /\ PriceFrom(fallback.discount, scraped_data.regular_price)

\* what the discount extractor of a program gives for a label:
\* <<value, is a discount percentage>>
DiscountOf(v, label) ==
    CASE v = "main" -> extract_discount_per_tier(label)
      [] v = "final" -> <<extract_discount_info(label), extract_discount_info(label) # None>>
      [] v = "initial" -> PriceExtractor_extract_discount_info(label)

\* the label shows a parenthesized percentage "(N%)", N whole or with a fraction
ShowsPercentage(label) == label # None /\ search_percent_float(label) # None

\* the whole part of the N of "(N%)"
FlooredPercentage(label) == str(floor_float(search_percent_float(label))) \o <<"%">>

\* C12: fractional discounts are floored (extract_discount_per_tier,
\* extract_discount_info, PriceExtractor.extract_discount_info).  For every tier label
\* of a page that shows "(N%)", N whole or fractional, the extractor gives floor(N)
\* as a discount percentage, and never the label as a regular-price fallback marker.
C12_FractionalFloored ==
    (pc = "scraped" /\ response.ok) =>
        \A k \in 1..Len(response.soup.tiers) :
            LET label == response.soup.tiers[k].discount
            IN  ShowsPercentage(label) =>
                    DiscountOf(variant, label) = <<FlooredPercentage(label), TRUE>>

\* C13: dataset load failure is fatal (process_excel_file, __main__ of
\* requests_main.py).  When the table can not be read, no row is processed, nothing
\* is fetched or saved, and the run ends with a non-zero exit status; a run that
\* reaches the save ends with exit status 0.
C13_LoadFailureFatal ==
    /\ pc = "load_failed" =>
           /\ index = 0 /\ outcomes = <<>> /\ events = <<>>
           /\ exit_status # NoneInt /\ exit_status # 0
    /\ pc = "done" => exit_status = 0

\* the requested quantity of row i: the integer of the leading digit run of a Name
\* cell that is text, absent when there is no Name column, the cell is not text or
\* does not start with a digit
RequestedQuantity(frame, i) ==
    IF NameCol \notin ColumnSet(frame) THEN NoneInt
    ELSE LET name == frame.cells[i][NameCol]
         IN  IF ~IsText(name) \/ match_leading_digits(name) = None THEN NoneInt
             ELSE int(match_leading_digits(name))

\* the URL cell of every row is empty or text, and the table has ten columns
TextUrlsTenColumns ==
    /\ Len(df.columns) >= 10
    /\ \A i \in 1..MaxRows : is_empty_url(url_of(df, i)) \/ IsText(url_of(df, i))

\* C14: the derivation of the requested quantity never fails a row
\* (extract_quantity_number_from_the_name_column_at_the_beginning,
\* extract_quantity_from_name).  For every row the quantity derived is the integer of
\* the leading digits of a text name, and absent without a Name column, without
\* leading digits or for a name that is not text; no exception leaves the loop.
\* Stated for tables of at least ten columns whose URL cells are empty or text.
C14_QuantityNeverFails ==
    [][(variant \in {"main", "final"} /\ TextUrlsTenColumns /\ JustProcessed) =>
          /\ quantity' = RequestedQuantity(df, Row)
          /\ pc' = "loop"
    ]_vars

\* C15: the regular-price and the tier-schedule column are written together or not at
\* all (process_excel_file of requests_main.py).  For a row that was fetched, both
\* cells are written when the scraped regular_price is a present text, and both stay
\* as they were otherwise, a tiered page with a tier string but no regular price
\* included.
C15_PairedWrite ==
    [][(variant = "main" /\ JustProcessed /\ Fetched) =>
          LET rec == scraped_data'
              cells == df'.cells[Row]
          IN  IF rec.type = "dict" /\ rec.regular_price # None
              THEN /\ cells[RegularCol] = replace_dollar(rec.regular_price)
                   /\ cells[TierCol] = Stored(rec.tier_string)
              ELSE /\ CellUnchanged(Row, RegularCol)
                   /\ CellUnchanged(Row, TierCol)
    ]_vars

\* C15 happens: row 1 got both cells, row 2 was served a tiered page that gave a tier
\* string and no regular price, and kept both
C15_Witness ==
    /\ variant = "main" /\ index = 2
    /\ outcomes[1] = "written" /\ outcomes[2] = "caught"
    /\ {RegularCol, TierCol} \subseteq ColumnSet(df)
    /\ df.cells[1][RegularCol] # Old /\ df.cells[1][TierCol] # Old
    /\ scraped_data.type = "dict"
    /\ scraped_data.regular_price = None
    /\ scraped_data.tier_string # None
    /\ df.cells[2][RegularCol] = Old /\ df.cells[2][TierCol] = Old

====
